---------------------------- MODULE Spec2Model ----------------------------
(*************************************************************************)
(* A model of giffer.py: the ColorScheme constructor, the GIF-LZW        *)
(* encoder `compress` and the animation assembler `makegif`.             *)
(*                                                                       *)
(* Byte strings are sequences of integers 0..255.  Each of the three     *)
(* functions has its own specification (SpecColor, SpecCompress,         *)
(* SpecMakegif); the variables of the two functions a specification does *)
(* not run stay at their idle values.                                    *)
(*************************************************************************)
EXTENDS Integers, Sequences, FiniteSets, TLC

VARIABLES
    lzw,     \* the locals of one call of compress (a record)
    cs,      \* the locals of one call of ColorScheme.__init__ (a record)
    mg       \* the locals of one call of makegif, the grid and the file (a record)

vars == <<lzw, cs, mg>>

(*************************************************************************)
(* Bounds of the model                                                   *)
(*************************************************************************)
\* compress is run on every input of at most MaxLen symbols
MaxLen == 5
\* ... and on the prefixes of the pair-novel input of these lengths
\* (BlockLen: long enough for more than 255 raw bytes)
BlockLen == 240

(*************************************************************************)
(* Python helpers                                                        *)
(*************************************************************************)
RECURSIVE Pow2(_)
Pow2(n) == IF n <= 0 THEN 1 ELSE 2 * Pow2(n - 1)

RECURSIVE Concat(_)
\* b"".join(chunks)
Concat(chunks) ==
    IF chunks = <<>> THEN <<>> ELSE Head(chunks) \o Concat(Tail(chunks))

Min(a, b) == IF a <= b THEN a ELSE b

(*************************************************************************)
(* compress(data, mincodesize)                                           *)
(*************************************************************************)
\* the ceiling of the code width
MaxCodeSize == 12

\* bchr(i): the one-byte string of i
bchr(i) == <<i>>

\* table = {bchr(i): i for i in range(ncolors)}
InitTable(ncolors) == [s \in {bchr(i) : i \in 0 .. ncolors - 1} |-> s[1]]

\* The state of compress before the first iteration of the loop over data.
CompressInit(data, mincodesize) ==
    LET ncolors == Pow2(mincodesize)
    IN  [ data           |-> data,
          pos            |-> 0,
          mincodesize    |-> mincodesize,
          table          |-> InitTable(ncolors),
          codesize       |-> mincodesize + 1,
          newcode        |-> ncolors + 2,
          outputbuff     |-> ncolors,
          outputbuffsize |-> mincodesize + 1,
          output         |-> <<>>,
          databuff       |-> <<>>,
          pc             |-> "loop",
          err            |-> "",
          result         |-> <<>> ]

RECURSIVE FlushBytes(_)
\* while outputbuffsize >= 8: output.append(outputbuff & 255); ...
FlushBytes(s) ==
    IF s.outputbuffsize >= 8
    THEN FlushBytes([s EXCEPT !.output = Append(@, s.outputbuff % 256),
                              !.outputbuff = @ \div 256,
                              !.outputbuffsize = @ - 8])
    ELSE s

\* Prepend `code` to outputbuff at the current code width.
Emit(s, code) ==
    [s EXCEPT !.outputbuff = @ + code * Pow2(s.outputbuffsize),
              !.outputbuffsize = @ + s.codesize]

\* The reset of the table when the 12-bit codes are used up:
\*     table = {bchr(chr(i)): i for i in range(ncolors)}
\* bchr(chr(i)) is bytes((chr(i),)), which raises TypeError for a str
\* element; the comprehension raises on its first element, before table,
\* newcode and codesize are assigned.
ResetTable(s) ==
    LET ncolors == Pow2(s.mincodesize)
    IN  IF ncolors > 0
        THEN [s EXCEPT !.pc = "error", !.err = "TypeError"]
        ELSE [s EXCEPT !.table = <<>>,
                       !.newcode = ncolors + 2,
                       !.codesize = s.mincodesize + 1]

\* if newcode > 2**codesize: widen the codes, or clear at the ceiling
Widen(s) ==
    IF s.newcode > Pow2(s.codesize)
    THEN IF s.codesize < MaxCodeSize
         THEN [s EXCEPT !.codesize = @ + 1]
         ELSE ResetTable(Emit(s, Pow2(s.mincodesize)))
    ELSE s

\* One iteration of `for next_ in data`.
CompressStep(s) ==
    LET next_   == s.data[s.pos + 1]
        newbuff == s.databuff \o bchr(next_)
        t       == [s EXCEPT !.pos = @ + 1]
    IN  IF newbuff \in DOMAIN s.table
        THEN [t EXCEPT !.databuff = newbuff]
        ELSE LET ins == [t EXCEPT !.table = newbuff :> s.newcode @@ @,
                                  !.newcode = @ + 1]
                 out == [Emit(ins, s.table[s.databuff])
                            EXCEPT !.databuff = bchr(next_)]
                 w   == Widen(out)
             IN  IF w.pc = "error" THEN w ELSE FlushBytes(w)

RECURSIVE ChunksOf256(_, _)
\* Chunks with the slice taken one byte too long (end = start + 256).
ChunksOf256(output, start) ==
    IF start > Len(output) THEN <<>>
    ELSE LET end == Min(Len(output), start + 255)
         IN  <<bchr(end - start + 1), SubSeq(output, start, end)>>
                \o ChunksOf256(output, end + 1)

RECURSIVE Chunks(_, _)
\* for start in range(0, len(output), 255): a length byte and the chunk
Chunks(output, start) ==
    IF start > Len(output) THEN <<>>
    ELSE LET end == Min(Len(output), start + 254)
         IN  <<bchr(end - start + 1), SubSeq(output, start, end)>>
                \o Chunks(output, end + 1)

\* What follows the loop: the code of the outstanding prefix, the
\* remaining bits, and the framing in sub-blocks.
CompressFinish(s) ==
    IF s.databuff \notin DOMAIN s.table
    THEN [s EXCEPT !.pc = "error", !.err = "KeyError"]
    ELSE LET f   == FlushBytes(Emit(s, s.table[s.databuff]))
             raw == Append(f.output, f.outputbuff)
         IN  [f EXCEPT !.output = raw,
                       !.pc = "done",
                       !.result = Concat(<<bchr(s.mincodesize)>>
                                           \o Chunks(raw, 1) \o <<bchr(0)>>)]

\* One step of compress from state s; a finished call stays as it is.
CompressNext(s) ==
    IF s.pc # "loop" THEN s
    ELSE IF s.pos < Len(s.data) THEN CompressStep(s) ELSE CompressFinish(s)

RECURSIVE CompressRun(_, _)
\* n steps from s (halving n keeps the evaluation shallow)
CompressRun(s, n) ==
    IF n = 0 THEN s
    ELSE IF n = 1 THEN CompressNext(s)
    ELSE LET h == CompressRun(s, n \div 2)
         IN  IF h.pc = "loop" THEN CompressRun(h, n - (n \div 2)) ELSE h

\* compress(data, mincodesize): the final state (result, or the error)
\* after the len(data) iterations and the code that follows the loop.
Compress(data, mincodesize) ==
    CompressRun(CompressInit(data, mincodesize), Len(data) + 1)

(*************************************************************************)
(* The inputs of compress                                                *)
(*************************************************************************)
RECURSIVE SeqsUpTo(_, _)
SeqsUpTo(S, n) ==
    IF n = 0 THEN {<<>>}
    ELSE LET shorter == SeqsUpTo(S, n - 1)
         IN  shorter \cup {Append(q, x) : q \in {r \in shorter : Len(r) = n - 1}, x \in S}

\* The input whose consecutive pairs are all distinct: blocks of 256
\* steps, the d-th block stepping by the d-th odd number modulo 256.
PairNovel(n) ==
    [i \in 1 .. n |->
        LET k == i - 1
            b == k \div 256
            r == k % 256
        IN  (r * (2 * b + 1)) % 256]

\* An input over four symbols that repeats itself at growing distances.
Mixed(n) == [i \in 1 .. n |-> (i * i + (i \div 3)) % 4]

\* The least number of symbols of PairNovel that uses up the 12-bit codes
\* at mincodesize 8: one insertion per symbol after the first.
FillLen == Pow2(MaxCodeSize) - (Pow2(8) + 2) + 2

CompressInputs ==
    {[data |-> d, mincodesize |-> 2] : d \in SeqsUpTo(0 .. 3, MaxLen)}
    \cup {[data |-> Mixed(n), mincodesize |-> 2] : n \in MaxLen + 1 .. BlockLen}
    \cup {[data |-> PairNovel(n), mincodesize |-> 8] :
             n \in {BlockLen, FillLen - 1, FillLen}}

Idle == [pc |-> "idle"]

(*************************************************************************)
(* ColorScheme.__init__(table)                                           *)
(*************************************************************************)
\* ColorScheme is constructed on a table of every length up to this
MaxTableLen == 100

\* while 3 * 2 ** (size+1) <= n_colors: the search overshoots
WhileCondLe(size, n_colors) == 3 * Pow2(size + 1) <= n_colors

\* while 3 * 2 ** (size+1) < n_colors
WhileCond(size, n_colors) == 3 * Pow2(size + 1) < n_colors

\* assert 3 * 2 ** (size+1) == n_colors
AssertCond(size, n_colors) == 3 * Pow2(size + 1) = n_colors

\* A byte string of n bytes.
TableOfLen(n) == [i \in 1 .. n |-> (37 * i) % 256]

InitColor ==
    /\ \E n \in 0 .. MaxTableLen :
          cs = [ table      |-> TableOfLen(n),
                 n_colors   |-> n,
                 size       |-> 0,
                 self_size  |-> -1,
                 self_table |-> <<-1>>,
                 pc         |-> "while" ]
    /\ lzw = Idle
    /\ mg = Idle

\* One iteration of the while loop.
CsLoop ==
    /\ cs.pc = "while"
    /\ WhileCond(cs.size, cs.n_colors)
    /\ cs' = [cs EXCEPT !.size = @ + 1]
    /\ UNCHANGED <<lzw, mg>>

\* The loop is left: the assertion, then the two attributes.
CsAssert ==
    /\ cs.pc = "while"
    /\ ~WhileCond(cs.size, cs.n_colors)
    /\ cs' = IF AssertCond(cs.size, cs.n_colors)
             THEN [cs EXCEPT !.self_size = cs.size,
                             !.self_table = cs.table,
                             !.pc = "done"]
             ELSE [cs EXCEPT !.pc = "AssertionError"]
    /\ UNCHANGED <<lzw, mg>>

NextColor == CsLoop \/ CsAssert

SpecColor == InitColor /\ [][NextColor]_vars

RECURSIVE IsPaletteLen(_)
\* n is 3 * 2^(k+1) for some k >= 0: 6, or twice such a number.
IsPaletteLen(n) == n = 6 \/ (n > 6 /\ n % 2 = 0 /\ IsPaletteLen(n \div 2))

\* C7: ColorScheme(table) succeeds exactly when len(table) is
\* 3 * 2^(k+1) for some k >= 0, and then stores size = k and the table
\* unchanged; on every other length (0 and 3 included) it fails with the
\* palette-size error; the search for k ends (size never passes the
\* length).
C7_ColorScheme ==
    LET good == IsPaletteLen(cs.n_colors)
    IN  /\ cs.n_colors = Len(cs.table)
        /\ cs.pc = "done" =>
              /\ good
              /\ 3 * Pow2(cs.self_size + 1) = Len(cs.table)
              /\ cs.self_size >= 0
              /\ cs.self_table = TableOfLen(cs.n_colors)
        /\ cs.pc = "AssertionError" => ~good /\ cs.self_size = -1
        /\ cs.pc = "while" => cs.size <= cs.n_colors /\ cs.self_size = -1

\* A palette of 16 colours was accepted after the search went round.
C7_Witness == cs.pc = "done" /\ cs.n_colors = 48 /\ cs.self_size = 3


InitCompress ==
    /\ \E inp \in CompressInputs : lzw = CompressInit(inp.data, inp.mincodesize)
    /\ cs = Idle
    /\ mg = Idle

\* The iterations of `for next_ in data` from s, at most n of them, up to
\* and including the first one that changes the code width (by widening
\* or by the reset) or raises.
RECURSIVE RunEpoch(_, _)
RunEpoch(s, n) ==
    IF n = 0 THEN s
    ELSE IF n = 1 THEN CompressStep(s)
    ELSE LET h == RunEpoch(s, n \div 2)
         IN  IF h.pc = "loop" /\ h.codesize = s.codesize
             THEN RunEpoch(h, n - (n \div 2))
             ELSE h

\* The loop runs through one epoch of constant code width.
LzwEpoch ==
    /\ lzw.pc = "loop"
    /\ lzw.pos < Len(lzw.data)
    /\ lzw' = RunEpoch(lzw, Len(lzw.data) - lzw.pos)
    /\ UNCHANGED <<cs, mg>>

\* The input is used up: the code after the loop.
LzwFinish ==
    /\ lzw.pc = "loop"
    /\ lzw.pos = Len(lzw.data)
    /\ lzw' = CompressFinish(lzw)
    /\ UNCHANGED <<cs, mg>>

NextCompress == LzwEpoch \/ LzwFinish

SpecCompress == InitCompress /\ [][NextCompress]_vars

(*************************************************************************)
(* A standard GIF-LZW decoder, the reference the encoder is held to      *)
(*************************************************************************)
Fail == [ok |-> FALSE]

RECURSIVE ParseBlocks(_, _)
\* The sub-blocks of bytes from index i on: their data, in order, up to
\* the zero-length block, which must be the last byte.
ParseBlocks(bytes, i) ==
    IF i > Len(bytes) THEN Fail
    ELSE LET L == bytes[i]
         IN  IF L = 0
             THEN IF i = Len(bytes) THEN [ok |-> TRUE, blocks |-> <<>>] ELSE Fail
             ELSE IF i + L > Len(bytes) THEN Fail
             ELSE LET rest == ParseBlocks(bytes, i + L + 1)
                  IN  IF rest.ok
                      THEN [ok |-> TRUE,
                            blocks |-> <<SubSeq(bytes, i + 1, i + L)>> \o rest.blocks]
                      ELSE Fail

BitAt(raw, p) == (raw[(p \div 8) + 1] \div Pow2(p % 8)) % 2

RECURSIVE CodeAt(_, _, _)
\* The w-bit code at bit position p of raw, least significant bit first.
CodeAt(raw, p, w) ==
    IF w = 0 THEN 0 ELSE BitAt(raw, p) + 2 * CodeAt(raw, p + 1, w - 1)

DecodeInit(m) ==
    [ dict  |-> [c \in 0 .. Pow2(m) - 1 |-> <<c>>],
      next  |-> Pow2(m) + 2,
      width |-> m + 1,
      prev  |-> <<>>,
      out   |-> <<>>,
      p     |-> 0,
      pc    |-> "read" ]

\* The decoder reads one code of raw at bit position d.p.  It stops when
\* npix pixels are out, at the end code, or when the bits run out.  It
\* adds entry `next` for every code but the first after a clear, and
\* widens after adding code 2^width - 1, up to 12 bits.
DecodeStep(raw, m, npix, d) ==
    IF d.pc # "read" THEN d
    ELSE IF Len(d.out) >= npix \/ d.p + d.width > 8 * Len(raw)
    THEN [d EXCEPT !.pc = "end"]
    ELSE LET code == CodeAt(raw, d.p, d.width)
             q    == d.p + d.width
         IN  IF code = Pow2(m)
             THEN [DecodeInit(m) EXCEPT !.out = d.out, !.p = q]
             ELSE IF code = Pow2(m) + 1 THEN [d EXCEPT !.pc = "end"]
             ELSE IF d.prev = <<>>
             THEN IF code \in DOMAIN d.dict
                  THEN [d EXCEPT !.prev = d.dict[code],
                                 !.out = @ \o d.dict[code],
                                 !.p = q]
                  ELSE [d EXCEPT !.pc = "bad"]
             ELSE IF code \notin DOMAIN d.dict /\ code # d.next
             THEN [d EXCEPT !.pc = "bad"]
             ELSE LET entry == IF code \in DOMAIN d.dict
                               THEN d.dict[code]
                               ELSE Append(d.prev, d.prev[1])
                      grow  == d.next < Pow2(MaxCodeSize)
                      added == Append(d.prev, entry[1])
                  IN  [d EXCEPT
                         !.dict  = IF grow THEN d.next :> added @@ @ ELSE @,
                         !.next  = IF grow THEN @ + 1 ELSE @,
                         !.width = IF grow /\ d.next + 1 = Pow2(d.width)
                                      /\ d.width < MaxCodeSize
                                   THEN @ + 1 ELSE @,
                         !.prev  = entry,
                         !.out   = @ \o entry,
                         !.p     = q]

RECURSIVE DecodeRun(_, _, _, _, _)
\* n codes from d (halving n keeps the evaluation shallow)
DecodeRun(raw, m, npix, d, n) ==
    IF n = 0 THEN d
    ELSE IF n = 1 THEN DecodeStep(raw, m, npix, d)
    ELSE LET h == DecodeRun(raw, m, npix, d, n \div 2)
         IN  IF h.pc = "read" THEN DecodeRun(raw, m, npix, h, n - (n \div 2)) ELSE h

\* The first npix pixels a decoder draws from the framed stream `bytes`;
\* <<-1>> when the stream is malformed or holds fewer pixels.
Decode(bytes, npix) ==
    IF Len(bytes) < 2 THEN <<-1>>
    ELSE LET m      == bytes[1]
             parsed == ParseBlocks(bytes, 2)
         IN  IF ~parsed.ok THEN <<-1>>
             ELSE LET raw == Concat(parsed.blocks)
                      d   == DecodeRun(raw, m, npix, DecodeInit(m), 8 * Len(raw) + 1)
                  IN  IF d.pc = "end" /\ Len(d.out) >= npix
                      THEN SubSeq(d.out, 1, npix)
                      ELSE <<-1>>

(*************************************************************************)
(* Claims about compress                                                 *)
(*************************************************************************)
\* C1: compress terminates normally on every input of values below
\* 2^mincodesize (the empty input and dictionary-filling inputs included)
\* and a standard GIF-LZW decoder reproduces the input from its result.
C1_RoundTrip ==
    /\ lzw.pc # "error"
    /\ lzw.pc = "done" => Decode(lzw.result, Len(lzw.data)) = lzw.data

\* The round trip on the inputs compress returns on.
RoundTripWhenReturned ==
    lzw.pc = "done" => Decode(lzw.result, Len(lzw.data)) = lzw.data

\* C2: whenever compress returns, the result is the mincodesize byte, one
\* or more sub-blocks of 1..255 data bytes (all but the last of 255) whose
\* data concatenate to the raw packed stream, and one 0x00 terminator; a
\* raw stream of more than 255 bytes gives more than one sub-block.
C2_Framing ==
    lzw.pc = "done" =>
        LET r      == lzw.result
            parsed == ParseBlocks(r, 2)
        IN  /\ Len(r) >= 2
            /\ r[1] = lzw.mincodesize
            /\ r[Len(r)] = 0
            /\ parsed.ok
            /\ LET b == parsed.blocks
               IN  /\ Len(b) >= 1
                   /\ \A k \in 1 .. Len(b) : Len(b[k]) \in 1 .. 255
                   /\ \A k \in 1 .. Len(b) - 1 : Len(b[k]) = 255
                   /\ Concat(b) = lzw.output
                   /\ Len(lzw.output) > 255 => Len(b) > 1

\* A run that returned a raw stream of more than 255 bytes.
C2_Witness == lzw.pc = "done" /\ Len(lzw.output) > 255

\* C8: an insertion at code width 12 that uses up the 12-bit codes emits
\* the clear code at 12 bits, leaves the dictionary with exactly the
\* single-symbol strings, newcode = 2^mincodesize + 2 and codesize =
\* mincodesize + 1, and the encoding goes on; no code >= 4096 is emitted.
\* As a property of the steps of the loop: from code width 12 the loop
\* either stays at width 12 with every assigned code below 4096, or it has
\* just cleared and goes on from the initial dictionary.
C8_ResetOnOverflow ==
    [][ (lzw.pc = "loop" /\ lzw.codesize = MaxCodeSize /\ lzw.pos < Len(lzw.data))
        => \/ /\ lzw'.pc = "loop"
              /\ lzw'.codesize = MaxCodeSize
              /\ lzw'.newcode <= Pow2(MaxCodeSize)
              /\ \A k \in DOMAIN lzw'.table : lzw'.table[k] < Pow2(MaxCodeSize)
           \/ /\ lzw'.pc = "loop"
              /\ lzw'.table = InitTable(Pow2(lzw.mincodesize))
              /\ lzw'.newcode = Pow2(lzw.mincodesize) + 2
              /\ lzw'.codesize = lzw.mincodesize + 1 ]_vars

(*************************************************************************)
(* makegif(colors, rect, params)                                         *)
(*************************************************************************)
\* The offsets run over -MaxOffset .. MaxOffset cells in each axis, the
\* generations over 1 .. MaxGens, the two durations over 1 .. MaxTime.
MaxOffset == 1
MaxGens == 2
MaxTime == 3

\* The first width or height a GIF cannot hold (16-bit fields).
CanvasLimit == 65536

RECURSIVE SizeSearch(_, _)
\* size = 0; while 3 * 2 ** (size+1) < n_colors: size += 1
SizeSearch(size, n_colors) ==
    IF WhileCond(size, n_colors) THEN SizeSearch(size + 1, n_colors) ELSE size

\* ColorScheme(table), for a table the assertion accepts
ColorScheme(table) == [size |-> SizeSearch(0, Len(table)), table |-> table]

\* The two colour schemes of the module; main passes lifewiki.
lifewiki ==
    ColorScheme(<<255, 255, 255, 0, 0, 0, 255, 255, 255, 198, 198, 198>>)

lifehistory ==
    ColorScheme(<<0, 0, 0, 0, 255, 0, 0, 0, 128, 216, 255, 216,
                  255, 0, 0, 255, 255, 0, 96, 96, 96, 0, 0, 0>>)

\* range(start, stop)
RangeSeq(start, stop) ==
    [k \in 1 .. (IF stop > start THEN stop - start ELSE 0) |-> start + k - 1]

\* [x] * n
Repeat(x, n) == [k \in 1 .. n |-> x]

\* seq[a:b] for 0 <= a: the slice ends where the sequence ends
Slice(seq, a, b) == SubSeq(seq, a + 1, Min(b, Len(seq)))

\* struct.pack("<H", x)
LE16(x) == <<x % 256, (x \div 256) % 256>>

\* b"GIF89a"
Header == <<71, 73, 70, 56, 57, 97>>

\* struct.pack("<2HB2b", canvaswidth, canvasheight, colors.size+0x90, 0, 0)
ScreenDesc(canvaswidth, canvasheight, size) ==
    LE16(canvaswidth) \o LE16(canvasheight) \o <<size + 144, 0, 0>>

\* b"\x21\xFF\x0B" + b"NETSCAPE2.0" + struct.pack("<2bHb", 3, 1, 0, 0)
Applic ==
    <<33, 255, 11>> \o <<78, 69, 84, 83, 67, 65, 80, 69, 50, 46, 48>>
        \o <<3, 1>> \o LE16(0) \o <<0>>

\* b"\x2C" + struct.pack("<4HB", 0, 0, canvaswidth, canvasheight, 0x00)
ImageDesc(canvaswidth, canvasheight) ==
    <<44>> \o LE16(0) \o LE16(0) \o LE16(canvaswidth) \o LE16(canvasheight) \o <<0>>

\* [b"\x21\xF9", struct.pack("<bBH2b", 4, 0x00, time_per_frame, 0, 0)]
Gce(time_per_frame) == <<<<33, 249>>, <<4, 0>> \o LE16(time_per_frame) \o <<0, 0>>>>

\* b'\x3B'
Trailer == <<59>>

\* The validation accepts a canvas of exactly 65536 pixels.
CanvasTooLargeGt(canvaswidth, canvasheight) ==
    canvaswidth > CanvasLimit \/ canvasheight > CanvasLimit

\* if canvaswidth >= 65536 or canvasheight >= 65536
CanvasTooLarge(canvaswidth, canvasheight) ==
    canvaswidth >= CanvasLimit \/ canvasheight >= CanvasLimit

(* The grid of Golly: the cells alive at generation 0 and the number of  *)
(* generations run since.  A static pattern does not change; a drifting  *)
(* one moves one cell to the right per generation.                       *)
Base == {<<0, 0>>, <<1, 1>>}

\* g.getcell(x, y)
GetCell(grid, x, y) ==
    LET x0 == IF grid.kind = "static" THEN x ELSE x - grid.gen
    IN  IF <<x0, y>> \in Base THEN 1 ELSE 0

\* The columns sampled without the extra column of cells.
XRangeShort(rectx, dx_cell, width) == RangeSeq(rectx + dx_cell, rectx + dx_cell + width)

\* The columns sampled without the shift by whole cells.
XRangeNoShift(rectx, dx_cell, width) == RangeSeq(rectx, rectx + width + 1)

\* range(rectx+dx_cell, rectx+dx_cell+width+1)
XRange(rectx, dx_cell, width) == RangeSeq(rectx + dx_cell, rectx + dx_cell + width + 1)

\* range(recty+dy_cell, recty+dy_cell+height+1)
YRange(recty, dy_cell, height) == RangeSeq(recty + dy_cell, recty + dy_cell + height + 1)

\* One row of cell pixels: gridwidth border pixels and purecellsize
\* pixels of each cell, and the closing border pixels.
CellRow(grid, xs, y, purecellsize, gridwidth, bordercolor) ==
    Concat([k \in 1 .. Len(xs) |->
               Repeat(bordercolor, gridwidth)
                   \o Repeat(GetCell(grid, xs[k], y), purecellsize)])
        \o Repeat(bordercolor, gridwidth)

\* cells: gridwidth border rows and purecellsize copies of each cell row,
\* and the closing border rows.
Cells(grid, xs, ys, purecellsize, gridwidth, bordercolor, borderrow) ==
    Concat([k \in 1 .. Len(ys) |->
               Repeat(borderrow, gridwidth)
                   \o Repeat(CellRow(grid, xs, ys[k], purecellsize, gridwidth, bordercolor),
                             purecellsize)])
        \o Repeat(borderrow, gridwidth)

\* newcells: the canvaswidth x canvasheight window at (dx_subpx, dy_subpx)
Crop(cells, dx_subpx, dy_subpx, canvaswidth, canvasheight) ==
    LET rows == Slice(cells, dy_subpx, dy_subpx + canvasheight)
    IN  [k \in 1 .. Len(rows) |-> Slice(rows[k], dx_subpx, dx_subpx + canvaswidth)]

\* The file is written from the content without its last chunk.
FileBytesNoTrailer(gifcontent) == Concat(SubSeq(gifcontent, 1, Len(gifcontent) - 1))

\* b"".join(gifcontent), the bytes gif.write is given
FileBytes(gifcontent) == Concat(gifcontent)

\* The state of makegif on entry.
MakegifInit(colors, rect, params, kind) ==
    [ colors         |-> colors,
      rect           |-> rect,
      params         |-> params,
      grid           |-> [kind |-> kind, gen |-> 0],
      cellsize       |-> 0,
      canvaswidth    |-> 0,
      canvasheight   |-> 0,
      gifcontent     |-> <<>>,
      gif_total_time |-> 0,
      gif_num_frames |-> 0,
      frame_time     |-> 0,
      dx_px          |-> 0,
      dy_px          |-> 0,
      dx_subpx       |-> 0,
      dy_subpx       |-> 0,
      cells          |-> <<>>,
      newcells       |-> <<>>,
      image          |-> <<>>,
      shown          |-> <<>>,
      file           |-> <<-1>>,
      opens          |-> 0,
      pc             |-> "checkselrect",
      err            |-> "" ]

\* A raised exception (g.exit too) ends the script: nothing catches it.
Raise(m, err) == [m EXCEPT !.pc = "error", !.err = err]

\* checkselrect(), whose result main passes to makegif as rect
CheckSelRect(m) ==
    IF m.rect = <<>>
    THEN Raise(m, "EmptySelection")
    ELSE IF m.rect[3] >= CanvasLimit \/ m.rect[4] >= CanvasLimit
    THEN Raise(m, "CanvasTooLarge")
    ELSE [m EXCEPT !.pc = "validate"]

\* Get canvas size; validate canvas size.
Validate(m) ==
    LET cellsize     == m.params.purecellsize + m.params.gridwidth
        canvasheight == cellsize * m.rect[4] + m.params.gridwidth
        canvaswidth  == cellsize * m.rect[3] + m.params.gridwidth
        sized        == [m EXCEPT !.cellsize = cellsize,
                                  !.canvasheight = canvasheight,
                                  !.canvaswidth = canvaswidth]
    IN  IF CanvasTooLarge(canvaswidth, canvasheight)
        THEN Raise(sized, "CanvasTooLarge")
        ELSE [sized EXCEPT !.pc = "header"]

\* Generate header; the helper variables.  gif_total_time //
\* time_per_frame raises when time_per_frame is 0.
BuildHeader(m) ==
    LET content == <<Header,
                     ScreenDesc(m.canvaswidth, m.canvasheight, m.colors.size),
                     m.colors.table,
                     Applic>>
        total   == m.params.time_per_gen * m.params.gens
        t       == [m EXCEPT !.gifcontent = content, !.gif_total_time = total]
    IN  IF m.params.time_per_frame = 0
        THEN Raise(t, "ZeroDivisionError")
        ELSE [t EXCEPT !.gif_num_frames = total \div m.params.time_per_frame,
                       !.frame_time = 0,
                       !.pc = "loop"]

\* The body of the loop up to the image: the graphics control extension,
\* the offset of this frame, the cells and the window cut from them.
Rasterize(m) ==
    LET cellsize    == m.cellsize
        bordercolor == Pow2(m.colors.size + 1) - 1
        borderrow   == Repeat(bordercolor, m.canvaswidth + cellsize)
        gif_dx_px   == m.params.offset[1] * cellsize
        gif_dy_px   == m.params.offset[2] * cellsize
        dx_px       == (gif_dx_px * m.frame_time) \div m.gif_total_time
        dy_px       == (gif_dy_px * m.frame_time) \div m.gif_total_time
        dx_cell     == dx_px \div cellsize
        dx_subpx    == dx_px % cellsize
        dy_cell     == dy_px \div cellsize
        dy_subpx    == dy_px % cellsize
        cells       == Cells(m.grid,
                             XRange(m.rect[1], dx_cell, m.rect[3]),
                             YRange(m.rect[2], dy_cell, m.rect[4]),
                             m.params.purecellsize, m.params.gridwidth,
                             bordercolor, borderrow)
        newcells    == Crop(cells, dx_subpx, dy_subpx, m.canvaswidth, m.canvasheight)
    IN  [m EXCEPT !.gifcontent = @ \o Gce(m.params.time_per_frame),
                  !.dx_px = dx_px,
                  !.dy_px = dy_px,
                  !.dx_subpx = dx_subpx,
                  !.dy_subpx = dy_subpx,
                  !.cells = cells,
                  !.newcells = newcells,
                  !.image = Concat(newcells),
                  !.pc = "compress"]

\* gifcontent += [imagedesc, compress(image, colors.size+1)]; g.show
CompressFrame(m) ==
    LET c == Compress(m.image, m.colors.size + 1)
    IN  IF c.pc = "error"
        THEN Raise(m, c.err)
        ELSE [m EXCEPT
                !.gifcontent = @ \o <<ImageDesc(m.canvaswidth, m.canvasheight), c.result>>,
                !.shown = <<(m.frame_time \div m.params.time_per_frame) + 1,
                            m.gif_num_frames>>,
                !.pc = "advance"]

\* current_gen and next_gen of the frame at frame_time
CurrentGen(m) == m.frame_time \div m.params.time_per_gen
NextGen(m) == (m.frame_time + m.params.time_per_frame) \div m.params.time_per_gen

\* if next_gen > current_gen: g.run(next_gen - current_gen); then the
\* next frame_time of the range
Advance(m) ==
    [m EXCEPT !.grid.gen = IF NextGen(m) > CurrentGen(m)
                           THEN @ + (NextGen(m) - CurrentGen(m))
                           ELSE @,
              !.frame_time = @ + m.params.time_per_frame,
              !.pc = "loop"]

(*************************************************************************)
(* The inputs of makegif                                                 *)
(*************************************************************************)
ParamsOf(gens, offset, tpg, tpf, purecellsize, gridwidth) ==
    [ gens           |-> gens,
      offset         |-> offset,
      time_per_gen   |-> tpg,
      time_per_frame |-> tpf,
      purecellsize   |-> purecellsize,
      gridwidth      |-> gridwidth ]

Offsets == (-MaxOffset .. MaxOffset) \X (-MaxOffset .. MaxOffset)

\* Small selections under every offset and timing.
SmallInputs ==
    { [colors |-> col, rect |-> r, kind |-> k,
       params |-> ParamsOf(gens, off, tpg, tpf, sz[1], sz[2])] :
        col \in {lifewiki, lifehistory},
        r \in {<<0, 0, 1, 1>>, <<-1, 0, 2, 2>>},
        k \in {"static", "drift"},
        gens \in 1 .. MaxGens,
        off \in Offsets,
        tpg \in 1 .. MaxTime,
        tpf \in 1 .. MaxTime,
        sz \in {<<1, 0>>, <<2, 1>>} }

\* One cell of 10 pixels, no gridlines, panned by one cell to the right.
PanInputs ==
    { [colors |-> lifewiki, rect |-> <<0, 0, 1, 1>>, kind |-> "static",
       params |-> ParamsOf(gens, <<1, 0>>, tpg, tpf, 10, 0)] :
        gens \in 1 .. MaxGens, tpg \in 1 .. MaxTime, tpf \in 1 .. MaxTime }

\* The selections and canvases at the 16-bit limit (those that pass have
\* no frame to draw: 0 generations), no selection, and a time_per_frame
\* of 0.
EdgeInputs ==
    { [colors |-> lifewiki, rect |-> e[1], kind |-> "static", params |-> e[2]] :
        e \in { <<<<0, 0, 4681, 1>>, ParamsOf(1, <<0, 0>>, 1, 1, 14, 2)>>,
                <<<<0, 0, 1, 4681>>, ParamsOf(1, <<0, 0>>, 1, 1, 14, 2)>>,
                <<<<0, 0, 32768, 1>>, ParamsOf(0, <<1, 0>>, 1, 5, 2, 0)>>,
                <<<<0, 0, 1, 65535>>, ParamsOf(0, <<1, 0>>, 1, 5, 1, 0)>>,
                <<<<0, 0, 65535, 1>>, ParamsOf(0, <<1, 0>>, 1, 5, 1, 0)>>,
                <<<<0, 0, 65536, 1>>, ParamsOf(1, <<0, 0>>, 1, 1, 1, 0)>>,
                <<<<0, 0, 1, 65536>>, ParamsOf(1, <<0, 0>>, 1, 1, 1, 0)>>,
                <<<<>>, ParamsOf(1, <<0, 0>>, 1, 1, 1, 0)>>,
                <<<<0, 0, 1, 1>>, ParamsOf(1, <<0, 0>>, 0, 0, 1, 0)>> } }

MakegifInputs == SmallInputs \cup PanInputs \cup EdgeInputs

InitMakegif ==
    /\ \E inp \in MakegifInputs :
          mg = MakegifInit(inp.colors, inp.rect, inp.params, inp.kind)
    /\ lzw = Idle
    /\ cs = Idle

MgCheckSelRect ==
    /\ mg.pc = "checkselrect"
    /\ mg' = CheckSelRect(mg)
    /\ UNCHANGED <<lzw, cs>>

MgValidate ==
    /\ mg.pc = "validate"
    /\ mg' = Validate(mg)
    /\ UNCHANGED <<lzw, cs>>

MgHeader ==
    /\ mg.pc = "header"
    /\ mg' = BuildHeader(mg)
    /\ UNCHANGED <<lzw, cs>>

\* for frame_time in range(0, gif_total_time, time_per_frame): the frame
\* is drawn
MgRaster ==
    /\ mg.pc = "loop"
    /\ mg.frame_time < mg.gif_total_time
    /\ mg' = Rasterize(mg)
    /\ UNCHANGED <<lzw, cs>>

\* ... or g.getcell raises (the script is aborted), after the graphics
\* control extension was added
MgRasterFail ==
    /\ mg.pc = "loop"
    /\ mg.frame_time < mg.gif_total_time
    /\ mg' = Raise([mg EXCEPT !.gifcontent = @ \o Gce(mg.params.time_per_frame)],
                   "GollyError")
    /\ UNCHANGED <<lzw, cs>>

MgCompress ==
    /\ mg.pc = "compress"
    /\ mg' = CompressFrame(mg)
    /\ UNCHANGED <<lzw, cs>>

MgAdvance ==
    /\ mg.pc = "advance"
    /\ mg' = Advance(mg)
    /\ UNCHANGED <<lzw, cs>>

\* g.run raises
MgAdvanceFail ==
    /\ mg.pc = "advance"
    /\ NextGen(mg) > CurrentGen(mg)
    /\ mg' = Raise(mg, "GollyError")
    /\ UNCHANGED <<lzw, cs>>

\* The range is used up: gifcontent.append(trailer)
MgTrailer ==
    /\ mg.pc = "loop"
    /\ mg.frame_time >= mg.gif_total_time
    /\ mg' = [mg EXCEPT !.gifcontent = Append(@, Trailer), !.pc = "write"]
    /\ UNCHANGED <<lzw, cs>>

\* with open(..., "wb") as gif: gif.write(b"".join(gifcontent))
MgWrite ==
    /\ mg.pc = "write"
    /\ mg' = [mg EXCEPT !.file = FileBytes(mg.gifcontent),
                        !.opens = @ + 1,
                        !.shown = <<"saved">>,
                        !.pc = "done"]
    /\ UNCHANGED <<lzw, cs>>

\* ... or open raises (the path cannot be written)
MgWriteFail ==
    /\ mg.pc = "write"
    /\ mg' = Raise(mg, "OSError")
    /\ UNCHANGED <<lzw, cs>>

NextMakegif ==
    \/ MgCheckSelRect
    \/ MgValidate \/ MgHeader
    \/ MgRaster \/ MgRasterFail
    \/ MgCompress
    \/ MgAdvance \/ MgAdvanceFail
    \/ MgTrailer
    \/ MgWrite \/ MgWriteFail

SpecMakegif == InitMakegif /\ [][NextMakegif]_vars

(*************************************************************************)
(* Claims about makegif                                                  *)
(*************************************************************************)
Max(a, b) == IF a >= b THEN a ELSE b

\* The canvas the selection and the parameters give.
CanvasW(m) == (m.params.purecellsize + m.params.gridwidth) * m.rect[3] + m.params.gridwidth
CanvasH(m) == (m.params.purecellsize + m.params.gridwidth) * m.rect[4] + m.params.gridwidth

\* The frames (control extension, descriptor, data) in a finished content.
FramesIn(content) == (Len(content) - 5) \div 4

\* content is signature, screen descriptor, colour table, looping
\* extension, whole frames, trailer.
WholeGif(m, content) ==
    /\ Len(content) >= 5
    /\ (Len(content) - 5) % 4 = 0
    /\ content[1] = <<71, 73, 70, 56, 57, 97>>
    /\ Len(content[2]) = 7
    /\ content[2][1] + 256 * content[2][2] = CanvasW(m)
    /\ content[2][3] + 256 * content[2][4] = CanvasH(m)
    /\ content[3] = m.colors.table
    /\ SubSeq(content[4], 1, 14) = <<33, 255, 11, 78, 69, 84, 83, 67, 65, 80, 69, 50, 46, 48>>
    /\ content[Len(content)] = <<59>>
    /\ \A f \in 0 .. FramesIn(content) - 1 :
          /\ content[4 * f + 5] = <<33, 249>>
          /\ Len(content[4 * f + 6]) = 6
          /\ content[4 * f + 7][1] = 44
          /\ content[4 * f + 8][1] = m.colors.size + 1
          /\ content[4 * f + 8][Len(content[4 * f + 8])] = 0

\* C3: the file is opened at most once, and only after every frame of the
\* loop and the trailer are in the buffer; a run that stops earlier
\* (validation, or an error while drawing, compressing or advancing)
\* leaves no file; the bytes written are the whole GIF.
C3_NoPartialOutput ==
    /\ mg.opens <= 1
    /\ mg.pc # "done" => mg.file = <<-1>> /\ mg.opens = 0
    /\ mg.pc = "done" =>
          /\ mg.opens = 1
          /\ mg.frame_time >= mg.gif_total_time
          /\ FramesIn(mg.gifcontent) * mg.params.time_per_frame = mg.frame_time
          /\ WholeGif(mg, mg.gifcontent)
          /\ mg.file = Concat(mg.gifcontent)

\* A file of two frames or more was written.
C3_Witness == mg.pc = "done" /\ FramesIn(mg.gifcontent) >= 2 /\ Len(mg.file) > 40

\* C4: a canvas of 65536 pixels or more in either axis makes makegif fail
\* with the canvas error before a header byte is emitted, a cell sampled,
\* the grid advanced or a file written; a smaller canvas passes and the
\* header is emitted.
C4_CanvasBound ==
    mg.rect # <<>> =>
        LET big == CanvasW(mg) >= 65536 \/ CanvasH(mg) >= 65536
        IN  /\ big =>
                  /\ mg.pc \in {"checkselrect", "validate", "error"}
                  /\ mg.pc = "error" => mg.err = "CanvasTooLarge"
                  /\ mg.gifcontent = <<>>
                  /\ mg.cells = <<>> /\ mg.image = <<>>
                  /\ mg.grid.gen = 0
                  /\ mg.file = <<-1>> /\ mg.opens = 0
            /\ ~big =>
                  /\ mg.err # "CanvasTooLarge"
                  /\ mg.pc \notin {"checkselrect", "validate", "header"} =>
                        /\ Len(mg.gifcontent) >= 4
                        /\ mg.gifcontent[1] = <<71, 73, 70, 56, 57, 97>>
                        /\ mg.gifcontent[2][1] + 256 * mg.gifcontent[2][2] = CanvasW(mg)
                        /\ mg.gifcontent[2][3] + 256 * mg.gifcontent[2][4] = CanvasH(mg)

\* The selection of 4681 cells of 14 + 2 pixels was refused.
C4_Witness ==
    /\ mg.pc = "error" /\ mg.err = "CanvasTooLarge"
    /\ mg.rect[3] = 4681 /\ mg.canvaswidth = 74898

\* The preconditions of the claims about the timing.
TimingOk(m) ==
    m.params.gens >= 1 /\ m.params.time_per_gen > 0 /\ m.params.time_per_frame > 0

\* C5: a complete run advances the grid by exactly gens generations in
\* total, whatever the two durations.
C5_TotalAdvance ==
    (mg.pc = "done" /\ TimingOk(mg)) => mg.grid.gen = mg.params.gens

\* C9: the number of frames emitted is max(1, (time_per_gen * gens) //
\* time_per_frame), and the frame number shown never exceeds the total
\* shown.
C9_FrameCount ==
    TimingOk(mg) =>
        /\ mg.pc = "done" =>
              FramesIn(mg.gifcontent)
                  = Max(1, (mg.params.time_per_gen * mg.params.gens)
                               \div mg.params.time_per_frame)
        /\ Len(mg.shown) = 2 => mg.shown[1] <= mg.shown[2]

\* The pixel at (X, Y) of the unbounded picture of the grid, (0, 0) being
\* the top left pixel of the selection: a gridline or the cell under it.
Pixel(m, X, Y) ==
    LET cellsize == m.params.purecellsize + m.params.gridwidth
    IN  IF X % cellsize < m.params.gridwidth \/ Y % cellsize < m.params.gridwidth
        THEN Pow2(m.colors.size + 1) - 1
        ELSE GetCell(m.grid, m.rect[1] + (X \div cellsize), m.rect[2] + (Y \div cellsize))

\* The canvas-sized window of the picture at (sx, sy), row by row.
Window(m, sx, sy) ==
    [r \in 1 .. CanvasH(m) |-> [c \in 1 .. CanvasW(m) |-> Pixel(m, c - 1 + sx, r - 1 + sy)]]

\* The time of the frame whose raster the state holds.
RasterTime(m) ==
    IF m.pc \in {"compress", "advance"}
    THEN m.frame_time
    ELSE m.frame_time - m.params.time_per_frame

\* C6 as stated: with a static pattern, offset (1, 0), 10-pixel cells and
\* no gridlines, the last frame (of two or more) is the first frame
\* shifted by 10 pixels.
C6_FullShift ==
    ( /\ mg.pc = "done"
      /\ mg.grid.kind = "static"
      /\ mg.params.offset = <<1, 0>>
      /\ mg.params.purecellsize = 10 /\ mg.params.gridwidth = 0
      /\ TimingOk(mg)
      /\ FramesIn(mg.gifcontent) >= 2 )
    => mg.newcells = Window(mg, 10, 0)

\* C6 as amended: with a static pattern every frame, the last one too, is
\* the picture shifted by floor(offset * cellsize * t / gif_total_time)
\* pixels, t the time of the frame; t is below gif_total_time, so the
\* last frame stops short of the full offset (10 pixels in the example).
C6_PanningShift ==
    ( /\ mg.grid.kind = "static"
      /\ mg.pc \in {"compress", "advance", "loop", "write", "done"}
      /\ mg.cells # <<>> )
    => LET cellsize == mg.params.purecellsize + mg.params.gridwidth
           t        == RasterTime(mg)
           sx       == (mg.params.offset[1] * cellsize * t) \div mg.gif_total_time
           sy       == (mg.params.offset[2] * cellsize * t) \div mg.gif_total_time
       IN  /\ 0 <= t /\ t < mg.gif_total_time
           /\ mg.params.offset[1] > 0 => sx < mg.params.offset[1] * cellsize
           /\ mg.newcells = Window(mg, sx, sy)
           /\ mg.image = Concat(Window(mg, sx, sy))

\* The last frame of the example, drawn 5 pixels to the right.
C6_Witness ==
    /\ mg.pc = "done"
    /\ mg.grid.kind = "static"
    /\ mg.params.offset = <<1, 0>>
    /\ mg.params.purecellsize = 10 /\ mg.params.gridwidth = 0
    /\ mg.dx_px = 5
    /\ mg.newcells = Window(mg, 5, 0)
    /\ mg.newcells # Window(mg, 0, 0)

\* C10: in every frame the crop starts at 0 <= dx_subpx, dy_subpx <
\* cellsize, the oversized grid has canvasheight + cellsize rows of
\* canvaswidth + cellsize pixels, and the raster given to compress has
\* canvasheight rows of canvaswidth pixels, the size the image
\* descriptor declares.
C10_RasterDims ==
    mg.cells # <<>> =>
        LET cellsize == mg.params.purecellsize + mg.params.gridwidth
        IN  /\ 0 <= mg.dx_subpx /\ mg.dx_subpx < cellsize
            /\ 0 <= mg.dy_subpx /\ mg.dy_subpx < cellsize
            /\ Len(mg.cells) = CanvasH(mg) + cellsize
            /\ \A r \in 1 .. Len(mg.cells) : Len(mg.cells[r]) = CanvasW(mg) + cellsize
            /\ Len(mg.newcells) = CanvasH(mg)
            /\ \A r \in 1 .. Len(mg.newcells) : Len(mg.newcells[r]) = CanvasW(mg)
            /\ Len(mg.image) = CanvasW(mg) * CanvasH(mg)
            /\ mg.pc = "advance" =>
                  LET d == mg.gifcontent[Len(mg.gifcontent) - 1]
                  IN  /\ d[1] = 44
                      /\ d[6] + 256 * d[7] = CanvasW(mg)
                      /\ d[8] + 256 * d[9] = CanvasH(mg)

\* A frame panned to the left by part of a cell, with gridlines.
C10_Witness ==
    /\ mg.pc = "advance"
    /\ mg.params.offset[1] < 0 /\ mg.params.gridwidth > 0
    /\ mg.dx_subpx > 0 /\ mg.dx_px < 0
    /\ Len(mg.image) = CanvasW(mg) * CanvasH(mg)

=============================================================================
